---- MODULE Spec2Model ----
(***************************************************************************)
(* Model of src/minesweeper.py: the Minesweeper board (ground truth), the  *)
(* Sentence constraint and the MinesweeperAI knowledge base with its       *)
(* add_knowledge inference and its two move queries.                       *)
(*                                                                         *)
(* A cell is a pair <<row, column>>.  A Sentence is a record               *)
(* [cells, count]; the knowledge base is the list self.knowledge, kept in  *)
(* list order because both loops of add_knowledge scan it in that order.   *)
(***************************************************************************)
EXTENDS Integers, FiniteSets, Sequences, TLC

\* The literal upper bound of create_neighbours (neighb[0] <= 7, neighb[1] <= 7).
NeighbourMax == 7

\* The literal range end of make_random_move (range(0, 8)).
RandomRange == 8

\* Bound of the model: the number of add_knowledge calls in one game.
MaxCalls == 4

\* Bounds of the direct-call specification: the add_knowledge calls and the
\* direct mark_mine / mark_safe calls made on one AI.
MaxApiCalls == 2
MaxMarks == 2

\* Python's None (a value comparable with cells).
None == << >>

Rect(h, w) == (0 .. h - 1) \X (0 .. w - 1)

\* A ground-truth game: Minesweeper(height, width) with a given mine layout.
Game(h, w, m) == [height |-> h, width |-> w, mines |-> m]

\* The games the model plays.  Dense8x8 is a standard 8x8 board on which only
\* five cells of the top-left corner are free of mines; Wide2x9 and Row1x9 are
\* wider than the literal 7 of create_neighbours; the others are smaller.
Dense8x8 == Game(8, 8, Rect(8, 8) \ {<<0, 0>>, <<0, 1>>, <<1, 0>>, <<1, 1>>, <<1, 2>>})
Wide2x9 == Game(2, 9, {<<0, 8>>, <<1, 8>>} \cup Rect(2, 4))
Row1x9 == Game(1, 9, Rect(1, 5))
Row1x2 == Game(1, 2, {<<0, 1>>})
One1x1 == Game(1, 1, {})
Small3x3 == Game(3, 3, {<<2, 2>>, <<0, 2>>})
Games == {Dense8x8, Wide2x9, Row1x9, Row1x2, One1x1, Small3x3}

\* The games on which the methods are called directly.
ApiGames == {Dense8x8, Row1x9, Row1x2}

(***************************************************************************)
(* class Minesweeper                                                       *)
(***************************************************************************)
\* The 3x3 block range(cell[0]-1, cell[0]+2) x range(cell[1]-1, cell[1]+2).
Around(cell) == {<<cell[1] + i, cell[2] + j>> : i \in -1 .. 1, j \in -1 .. 1}

InBoard(g, cell) ==
    /\ 0 <= cell[1] /\ cell[1] < g.height
    /\ 0 <= cell[2] /\ cell[2] < g.width

\* A Python list of n items accepts the indices -n .. n-1 and raises
\* IndexError on any other.
Indexable(n, i) == -n <= i /\ i < n

\* The position a Python list index reads: a negative index counts from the
\* end of the list.
ListIndex(n, i) == IF i < 0 THEN i + n ELSE i

\* Minesweeper.is_mine: self.board[i][j] with no bounds test.  The result is
\* the value read, or raised = TRUE when an index raises IndexError.
IsMine(g, cell) ==
    IF Indexable(g.height, cell[1]) /\ Indexable(g.width, cell[2])
    THEN [raised |-> FALSE,
          value  |-> <<ListIndex(g.height, cell[1]), ListIndex(g.width, cell[2])>> \in g.mines]
    ELSE [raised |-> TRUE, value |-> FALSE]

\* The in-bounds neighbours the board counts over.
BoardNeighbours(g, cell) == {n \in Around(cell) : n # cell /\ InBoard(g, n)}

\* Minesweeper.nearby_mines: self.board[i][j] is read after the bounds test.
NearbyMines(g, cell) == Cardinality({n \in BoardNeighbours(g, cell) : IsMine(g, n).value})

(***************************************************************************)
(* class Sentence                                                          *)
(***************************************************************************)
Sentence(cells, count) == [cells |-> cells, count |-> count]

SentenceKnownMines(s) == IF Cardinality(s.cells) = s.count THEN s.cells ELSE {}

SentenceKnownSafes(s) == IF s.count = 0 THEN s.cells ELSE {}

\* mark_mine that decrements count whether or not the cell is in the sentence.
SentenceMarkMineAlways(s, cell) == Sentence(s.cells \ {cell}, s.count - 1)

SentenceMarkMine(s, cell) ==
    IF cell \in s.cells THEN Sentence(s.cells \ {cell}, s.count - 1) ELSE s

\* mark_safe that decrements count as mark_mine does.
SentenceMarkSafeDecrement(s, cell) ==
    IF cell \in s.cells THEN Sentence(s.cells \ {cell}, s.count - 1) ELSE s

SentenceMarkSafe(s, cell) ==
    IF cell \in s.cells THEN Sentence(s.cells \ {cell}, s.count) ELSE s

(***************************************************************************)
(* class MinesweeperAI.  An AI value is the record of its four fields.     *)
(***************************************************************************)
NewAI == [moves_made |-> {}, mines |-> {}, safes |-> {}, knowledge |-> << >>]

AIMarkMine(ai, cell) ==
    [ai EXCEPT !.mines = @ \cup {cell},
               !.knowledge = [i \in DOMAIN @ |-> SentenceMarkMine(@[i], cell)]]

AIMarkSafe(ai, cell) ==
    [ai EXCEPT !.safes = @ \cup {cell},
               !.knowledge = [i \in DOMAIN @ |-> SentenceMarkSafe(@[i], cell)]]

\* [self.mark_mine(cell) for cell in knowledge.cells]: the comprehension runs
\* over the set object read before the first mark (mark_mine rebinds
\* sentence.cells to a new set), so every cell of it is marked.
RECURSIVE MarkAllMines(_, _)
MarkAllMines(ai, cells) ==
    IF cells = {} THEN ai
    ELSE LET c == CHOOSE x \in cells : TRUE
         IN  MarkAllMines(AIMarkMine(ai, c), cells \ {c})

RECURSIVE MarkAllSafes(_, _)
MarkAllSafes(ai, cells) ==
    IF cells = {} THEN ai
    ELSE LET c == CHOOSE x \in cells : TRUE
         IN  MarkAllSafes(AIMarkSafe(ai, c), cells \ {c})

\* create_neighbours, the local function of add_knowledge.
CreateNeighbours(cell) ==
    {n \in Around(cell) :
        /\ n[1] >= 0 /\ n[1] <= NeighbourMax
        /\ n[2] >= 0 /\ n[2] <= NeighbourMax
        /\ n # cell}

\* One iteration of the step-4 loop, on the sentence at index i.
PropagateAt(ai, i) ==
    LET afterMines ==
            IF SentenceKnownMines(ai.knowledge[i]) # {}
            THEN MarkAllMines(ai, ai.knowledge[i].cells)
            ELSE ai
    IN  IF SentenceKnownSafes(afterMines.knowledge[i]) # {}
        THEN MarkAllSafes(afterMines, afterMines.knowledge[i].cells)
        ELSE afterMines

\* Step 4: for knowledge in self.knowledge, one pass in list order from index i.
RECURSIVE Propagate(_, _)
Propagate(ai, i) ==
    IF i > Len(ai.knowledge) THEN ai
    ELSE Propagate(PropagateAt(ai, i), i + 1)

\* self.knowledge = [k for k in self.knowledge if len(k.cells)]
RemoveEmpty(K) == SelectSeq(K, LAMBDA k : k.cells # {})

\* The body of the inner loop of step 5 for the pair (knowledge = K[i], k = K[j]).
ReducePair(K, i, j) ==
    IF K[j].cells \subseteq K[i].cells /\ j # i
    THEN [K EXCEPT ![i] = Sentence(K[i].cells \ K[j].cells, K[i].count - K[j].count)]
    ELSE K

\* for k in self.knowledge, from index j, for the outer sentence at index i.
RECURSIVE ReduceInner(_, _, _)
ReduceInner(K, i, j) ==
    IF j > Len(K) THEN K
    ELSE ReduceInner(ReducePair(K, i, j), i, j + 1)

\* Step 5: for knowledge in self.knowledge, from index i.
RECURSIVE Reduce(_, _)
Reduce(K, i) ==
    IF i > Len(K) THEN K
    ELSE Reduce(ReduceInner(K, i, 1), i + 1)

\* Step 1 without step 2 (self.mark_safe(cell) missing).
RecordMoveOnly(ai, cell) == [ai EXCEPT !.moves_made = @ \cup {cell}]

\* Steps 1 and 2 of add_knowledge.
RecordMove(ai, cell) == AIMarkSafe([ai EXCEPT !.moves_made = @ \cup {cell}], cell)

\* Step 3 raises ValueError when a neighbour is both in self.mines and in
\* self.safes: the second neighbours.remove(c) finds c already removed.
Step3Raises(ai, cell) == CreateNeighbours(cell) \cap ai.mines \cap ai.safes # {}

\* Step 3 without the removal of the neighbours known safe.
NewSentenceKeepSafes(ai, cell, count) ==
    Sentence(CreateNeighbours(cell) \ ai.mines,
             count - Cardinality(CreateNeighbours(cell) \cap ai.mines))

\* Step 3: the new sentence over the undetermined neighbours.
NewSentence(ai, cell, count) ==
    Sentence(CreateNeighbours(cell) \ (ai.mines \cup ai.safes),
             count - Cardinality(CreateNeighbours(cell) \cap ai.mines))

\* add_knowledge up to self.knowledge.append(sentence) (steps 1 to 3).
WithNewSentence(ai, cell, count) ==
    LET a2 == RecordMove(ai, cell)
    IN  [a2 EXCEPT !.knowledge = Append(@, NewSentence(a2, cell, count))]

\* add_knowledge up to the removal of the empty sentences (steps 1 to 4).
BeforeReduce(ai, cell, count) ==
    LET a4 == Propagate(WithNewSentence(ai, cell, count), 1)
    IN  [a4 EXCEPT !.knowledge = RemoveEmpty(@)]

\* A sentence whose count is negative or exceeds the number of its cells.
BadCount(s) == s.count < 0 \/ s.count > Cardinality(s.cells)

HasBadCount(K) == \E i \in DOMAIN K : BadCount(K[i])

\* MinesweeperAI.add_knowledge: the AI it leaves, whether it raised, the
\* knowledge list as it stood when step 5 began, and whether a sentence had a
\* bad count when the new sentence was stored, when step 4 ended or when
\* step 5 ended.
AddKnowledge(ai, cell, count) ==
    IF Step3Raises(RecordMove(ai, cell), cell)
    THEN [ai |-> RecordMove(ai, cell), raised |-> TRUE, pre |-> << >>,
          bad |-> HasBadCount(RecordMove(ai, cell).knowledge)]
    ELSE LET a3 == WithNewSentence(ai, cell, count)
             b == BeforeReduce(ai, cell, count)
             K == Reduce(b.knowledge, 1)
         IN  [ai |-> [b EXCEPT !.knowledge = K],
              raised |-> FALSE,
              pre |-> b.knowledge,
              bad |-> \/ HasBadCount(a3.knowledge)
                      \/ HasBadCount(Propagate(a3, 1).knowledge)
                      \/ HasBadCount(K)]

\* The same knowledge base with its sentences stored in the opposite order.
Reversed(ai) ==
    [ai EXCEPT !.knowledge = [i \in DOMAIN @ |-> @[Len(@) + 1 - i]]]

\* What an AI holds, the order of its sentences left aside.
Content(ai) ==
    [moves_made |-> ai.moves_made, mines |-> ai.mines, safes |-> ai.safes,
     sentences |-> {ai.knowledge[i] : i \in DOMAIN ai.knowledge}]

\* SafeMoves without the test "if move not in self.moves_made".
SafeMovesAnySafe(ai) == IF ai.safes = {} THEN {None} ELSE ai.safes

\* make_safe_move: the cells the loop over self.safes can return (the first
\* one in the set's iteration order that is not in moves_made), None if the
\* loop ends without returning.
SafeMoves(ai) ==
    IF ai.safes \ ai.moves_made = {} THEN {None} ELSE ai.safes \ ai.moves_made

\* make_random_move: possible_moves in the order of the two range(0, 8) loops.
PossibleMoves(ai) ==
    {c \in (0 .. RandomRange - 1) \X (0 .. RandomRange - 1) :
        c \notin ai.mines /\ c \notin ai.moves_made}

Before(c, d) == c[1] < d[1] \/ (c[1] = d[1] /\ c[2] < d[2])

RandomMove(ai) ==
    IF PossibleMoves(ai) = {} THEN None
    ELSE CHOOSE c \in PossibleMoves(ai) : \A d \in PossibleMoves(ai) : d = c \/ Before(c, d)

(***************************************************************************)
(* The state machine: one game, one AI built with the game's height and    *)
(* width, and the loop that drives them.                                   *)
(***************************************************************************)
VARIABLES
    game,        \* the ground truth, and the AI's configured height and width
    moves_made, mines, safes, knowledge,   \* the fields of the MinesweeperAI
    op,          \* the last operation
    last_cell, last_count,                 \* the arguments of the last add_knowledge
    raised,      \* the last add_knowledge raised ValueError
    pre,         \* self.knowledge when step 5 of the last add_knowledge began
    ret,         \* what the last move query returned
    pc,          \* "idle", "reveal" (a safe move is to be revealed) or "stopped"
    returned,    \* the cells make_safe_move has returned, in order
    owed,        \* the board neighbours, not yet played, of the cells revealed with
                 \* count 0 while none of their neighbours was a known mine
    bad_seen,    \* a sentence had a bad count during the last add_knowledge
    twin,        \* what the last add_knowledge leaves of the same knowledge base
                 \* with its sentences stored in the opposite order
    marks        \* the direct mark_mine / mark_safe calls made, in order

vars == <<game, moves_made, mines, safes, knowledge, op, last_cell, last_count,
          raised, pre, ret, pc, returned, owed, bad_seen, twin, marks>>

AI == [moves_made |-> moves_made, mines |-> mines, safes |-> safes,
       knowledge |-> knowledge]

Init ==
    /\ game \in Games
    /\ moves_made = {} /\ mines = {} /\ safes = {} /\ knowledge = << >>
    /\ op = "init" /\ last_cell = None /\ last_count = 0
    /\ raised = FALSE /\ pre = << >> /\ ret = None
    /\ pc = "idle" /\ returned = << >> /\ owed = {}
    /\ bad_seen = FALSE /\ twin = Content(NewAI) /\ marks = << >>

\* The call add_knowledge(cell, count) and what it leaves.
Call(cell, count) ==
    LET r == AddKnowledge(AI, cell, count)
    IN  /\ moves_made' = r.ai.moves_made
        /\ mines' = r.ai.mines
        /\ safes' = r.ai.safes
        /\ knowledge' = r.ai.knowledge
        /\ raised' = r.raised
        /\ pre' = r.pre
        /\ op' = "add_knowledge"
        /\ last_cell' = cell
        /\ last_count' = count
        /\ pc' = IF r.raised THEN "stopped" ELSE "idle"
        /\ owed' = IF count = 0 /\ BoardNeighbours(game, cell) \cap mines = {} /\ ~r.raised
                   THEN owed \cup (BoardNeighbours(game, cell) \ r.ai.moves_made)
                   ELSE owed
        /\ bad_seen' = r.bad
        /\ twin' = Content(AddKnowledge(Reversed(AI), cell, count).ai)

\* The call add_knowledge(cell, nearby_mines(cell)).
Reveal(cell) == Call(cell, NearbyMines(game, cell))

\* The cells the driving-loop contract lets the loop reveal.
Revealable ==
    {c \in Rect(game.height, game.width) : ~IsMine(game, c).value /\ c \notin moves_made}

\* A cell is clicked and revealed.
ClickReveal ==
    /\ pc = "idle"
    /\ Cardinality(moves_made) < MaxCalls
    /\ \E cell \in Revealable : Reveal(cell)
    /\ UNCHANGED <<game, ret, returned, marks>>

\* ai.make_safe_move()
MakeSafeMove ==
    /\ pc = "idle"
    /\ Cardinality(moves_made) < MaxCalls
    /\ \E m \in SafeMoves(AI) :
          /\ ret' = m
          /\ pc' = IF m = None THEN "idle" ELSE "reveal"
          /\ returned' = IF m = None THEN returned ELSE Append(returned, m)
    /\ op' = "make_safe_move"
    /\ UNCHANGED <<game, moves_made, mines, safes, knowledge, last_cell, last_count,
                   raised, pre, owed, bad_seen, twin, marks>>

\* The loop reveals the cell make_safe_move returned, or ends when the board
\* cannot reveal it (it lies outside the board, or it is a mine).
RevealReturned ==
    /\ pc = "reveal"
    /\ \/ /\ ret \in Revealable
          /\ Reveal(ret)
          /\ UNCHANGED <<game, ret, returned, marks>>
       \/ /\ ret \notin Revealable
          /\ pc' = "stopped"
          /\ op' = "stop"
          /\ UNCHANGED <<game, moves_made, mines, safes, knowledge, last_cell,
                         last_count, raised, pre, ret, returned, owed, bad_seen,
                         twin, marks>>

\* ai.make_random_move()
MakeRandomMove ==
    /\ pc = "idle"
    /\ ret' = RandomMove(AI)
    /\ op' = "make_random_move"
    /\ UNCHANGED <<game, moves_made, mines, safes, knowledge, last_cell, last_count,
                   raised, pre, pc, returned, owed, bad_seen, twin, marks>>

Next == ClickReveal \/ MakeSafeMove \/ RevealReturned \/ MakeRandomMove

Spec == Init /\ [][Next]_vars

(***************************************************************************)
(* The methods called directly: add_knowledge with the board's count or a  *)
(* count that is one too high, then mark_mine and mark_safe on cells of    *)
(* the stored sentences and on (0,0).                                      *)
(***************************************************************************)
ApiInit ==
    /\ game \in ApiGames
    /\ moves_made = {} /\ mines = {} /\ safes = {} /\ knowledge = << >>
    /\ op = "init" /\ last_cell = None /\ last_count = 0
    /\ raised = FALSE /\ pre = << >> /\ ret = None
    /\ pc = "idle" /\ returned = << >> /\ owed = {}
    /\ bad_seen = FALSE /\ twin = Content(NewAI) /\ marks = << >>

Least(S) == CHOOSE c \in S : \A d \in S : d = c \/ Before(c, d)

\* The cells the direct calls mark: the first two cells of the stored
\* sentences, and (0,0).
MarkCells ==
    LET inK == UNION {knowledge[i].cells : i \in DOMAIN knowledge}
        rest == inK \ {Least(inK)}
    IN  {<<0, 0>>} \cup (IF inK = {} THEN {} ELSE {Least(inK)})
                  \cup (IF inK = {} \/ rest = {} THEN {} ELSE {Least(rest)})

InSomeSentence(c) == \E i \in DOMAIN knowledge : c \in knowledge[i].cells

ApiAddKnowledge ==
    /\ pc = "idle"
    /\ marks = << >>
    /\ Cardinality(moves_made) < MaxApiCalls
    /\ \E cell \in Revealable :
          \E count \in {NearbyMines(game, cell), NearbyMines(game, cell) + 1} :
              Call(cell, count)
    /\ UNCHANGED <<game, ret, returned, marks>>

\* A direct call of a marking method, given the AI it leaves.
Mark(name, c, ai) ==
    /\ pc = "idle"
    /\ Len(marks) < MaxMarks
    /\ moves_made' = ai.moves_made
    /\ mines' = ai.mines
    /\ safes' = ai.safes
    /\ knowledge' = ai.knowledge
    /\ op' = name
    /\ marks' = Append(marks, [op |-> name, cell |-> c, hit |-> InSomeSentence(c)])
    /\ UNCHANGED <<game, last_cell, last_count, raised, pre, ret, pc, returned,
                   owed, bad_seen, twin>>

\* ai.mark_mine(c)
ApiMarkMine == \E c \in MarkCells : Mark("mark_mine", c, AIMarkMine(AI, c))

\* ai.mark_safe(c)
ApiMarkSafe == \E c \in MarkCells : Mark("mark_safe", c, AIMarkSafe(AI, c))

ApiNext == ApiAddKnowledge \/ ApiMarkMine \/ ApiMarkSafe

ApiSpec == ApiInit /\ [][ApiNext]_vars

(***************************************************************************)
(* Properties                                                              *)
(***************************************************************************)
\* The board lies within the literal bounds of create_neighbours and
\* make_random_move.
FitsLiteralBounds == game.height <= NeighbourMax + 1 /\ game.width <= NeighbourMax + 1

\* C1 (soundness): in every reachable state every cell of self.mines is a
\* mine of the ground-truth grid (a cell of Minesweeper.mines) and no cell of
\* self.safes is one.
C1_Soundness ==
    /\ \A c \in mines : c \in game.mines
    /\ \A c \in safes : c \notin game.mines

\* C2 (count invariant): every sentence the knowledge base holds when
\* add_knowledge has returned has 0 <= count <= |cells|.
C2_CountInvariant ==
    ~raised =>
        \A i \in DOMAIN knowledge :
            /\ 0 <= knowledge[i].count
            /\ knowledge[i].count <= Cardinality(knowledge[i].cells)

\* C3 (disjointness): self.mines and self.safes have no cell in common.
C3_Disjoint == mines \cap safes = {}

\* C4 (scenario 1): on the 1x2 board with its mine at (0,1), after the single
\* call add_knowledge((0,0), 1) self.mines is {(0,1)}.
C4_Scenario1 ==
    (game = Row1x2 /\ moves_made = {<<0, 0>>} /\ last_count = 1 /\ ~raised)
        => mines = {<<0, 1>>}

\* C5 (certainty completed): when add_knowledge has returned, no sentence
\* with a non-empty cell set has count = 0 or count = |cells|.
C5_NoCertainLeft ==
    ~raised =>
        \A i \in DOMAIN knowledge :
            knowledge[i].cells # {} =>
                /\ knowledge[i].count # 0
                /\ knowledge[i].count # Cardinality(knowledge[i].cells)

\* C6 (reduction completed): when add_knowledge has returned, no two distinct
\* sentences with non-empty cell sets have the cells of one within the cells
\* of the other.
C6_NoSubsetLeft ==
    ~raised =>
        \A i, j \in DOMAIN knowledge :
            (i # j /\ knowledge[i].cells # {} /\ knowledge[j].cells # {})
                => ~(knowledge[j].cells \subseteq knowledge[i].cells)

\* The pairs the subset-resolution step met when it began: sentence j has a
\* non-empty cell set that is a proper subset of sentence i's.
ProperSubsetPairs ==
    {p \in (DOMAIN pre) \X (DOMAIN pre) :
        /\ p[1] # p[2]
        /\ pre[p[2]].cells # {}
        /\ pre[p[2]].cells \subseteq pre[p[1]].cells
        /\ pre[p[2]].cells # pre[p[1]].cells}

\* A minus B, as step 5 derives it.
Difference(A, B) == Sentence(A.cells \ B.cells, A.count - B.count)

\* C7 (subset reduction): for every such pair (A, B), after the
\* pass A's prior form is gone and the knowledge base holds A minus B, or a
\* further reduction of it in A's place.
C7_SubsetReduction ==
    \A p \in ProperSubsetPairs :
        LET A == pre[p[1]]
            B == pre[p[2]]
        IN  /\ knowledge[p[1]] # A
            /\ \/ \E m \in DOMAIN knowledge : knowledge[m] = Difference(A, B)
               \/ knowledge[p[1]].cells \subseteq A.cells \ B.cells

NoRepeat(seq) == \A i, j \in DOMAIN seq : i # j => seq[i] # seq[j]

\* C8 (make_safe_move): the call returns a cell of self.safes that is not in
\* self.moves_made when there is one, returns None exactly when self.safes is
\* within self.moves_made, and changes none of the fields of the AI.
C8_SafeMove ==
    /\ [](op = "make_safe_move" =>
            /\ ret # None => (ret \in safes /\ ret \notin moves_made)
            /\ ret = None <=> safes \subseteq moves_made)
    /\ [][op' = "make_safe_move" =>
            UNCHANGED <<moves_made, mines, safes, knowledge>>]_vars

\* C8 witness: make_safe_move has returned a cell while the knowledge base
\* holds sentences and some played cell is known safe.
C8_Witness ==
    /\ op = "make_safe_move"
    /\ ret # None
    /\ knowledge # << >>
    /\ moves_made # {}

\* C9 (make_random_move): the call returns a cell of the configured board
\* that is neither in self.mines nor in self.moves_made when there is one,
\* and None exactly when there is none.
C9_RandomMove ==
    op = "make_random_move" =>
        LET candidates == Rect(game.height, game.width) \ (mines \cup moves_made)
        IN  /\ ret # None => ret \in candidates
            /\ ret = None <=> candidates = {}

\* C10 (scenario 2): the board neighbours of a cell revealed with count 0,
\* none of them a known mine, are all in self.safes; make_safe_move returns no
\* cell twice; and when make_safe_move has no more cell to return, every one
\* of those neighbours has been played.
C10_ZeroCountNeighbours ==
    /\ owed \subseteq safes
    /\ NoRepeat(returned)
    /\ (op = "make_safe_move" /\ ret = None) => owed \subseteq moves_made

\* The last two direct calls were the same method on the same cell.
Repeated(log) ==
    /\ Len(log) >= 2
    /\ log[Len(log)].op = log[Len(log) - 1].op
    /\ log[Len(log)].cell = log[Len(log) - 1].cell

\* C11 (idempotence): a second mark_mine(c), or a second mark_safe(c), right
\* after the first changes nothing: the sets and every sentence's cells and
\* count stay as the first call left them.
C11_MarkIdempotent ==
    [][(marks' # marks /\ Repeated(marks'))
           => UNCHANGED <<moves_made, mines, safes, knowledge>>]_vars

\* C11 witness: mark_mine was called twice on a cell that a sentence held
\* when the first call was made.
C11_Witness ==
    /\ Repeated(marks)
    /\ marks[Len(marks)].op = "mark_mine"
    /\ marks[Len(marks) - 1].hit
    /\ knowledge # << >>

\* C12 (violations detected): a call during which a sentence had a negative
\* count or a count above the number of its cells, or which leaves such a
\* sentence in the knowledge base, reports a failure.
C12_ViolationReported ==
    /\ (op = "add_knowledge" /\ (bad_seen \/ HasBadCount(knowledge))) => raised
    /\ op \in {"mark_mine", "mark_safe"} => ~HasBadCount(knowledge)

KnownCells == mines \cup safes \cup UNION {knowledge[i].cells : i \in DOMAIN knowledge}

\* C13 (grid bounds): every cell of a sentence, of self.safes or of
\* self.mines lies inside the configured board, and every board neighbour of
\* the revealed cell is among the neighbours its sentence is built from.
C13_WithinGrid ==
    /\ \A c \in KnownCells : InBoard(game, c)
    /\ last_cell # None => BoardNeighbours(game, last_cell) \subseteq CreateNeighbours(last_cell)

\* C14 (no vacuous sentence): when add_knowledge has returned, no sentence
\* of the knowledge base has an empty cell set.
C14_NoEmptySentence ==
    (op = "add_knowledge" /\ ~raised) =>
        \A i \in DOMAIN knowledge : knowledge[i].cells # {}

\* C15 (order independence): add_knowledge leaves the same known sets and
\* the same sentences as it leaves of the knowledge base that stores the same
\* sentences in the opposite order.
C15_OrderIndependent == op = "add_knowledge" => twin = Content(AI)

\* The cell of the last direct call.
MarkedCell == marks'[Len(marks')].cell

\* C16 (sentence update): mark_mine(cell) removes the cell from the sentences
\* that hold it and lowers their count by exactly 1, mark_safe(cell) removes
\* it and keeps their count, and the other sentences stay as they are.
C16_SentenceUpdate ==
    [][marks' # marks =>
          /\ Len(knowledge') = Len(knowledge)
          /\ \A i \in DOMAIN knowledge :
                /\ knowledge'[i].cells = knowledge[i].cells \ {MarkedCell}
                /\ knowledge'[i].count =
                      IF op' = "mark_mine" /\ MarkedCell \in knowledge[i].cells
                      THEN knowledge[i].count - 1
                      ELSE knowledge[i].count]_vars

\* C16 witness: mark_safe was called on a cell that a sentence held, with
\* two sentences or more stored.
C16_Witness ==
    /\ marks # << >>
    /\ marks[Len(marks)].op = "mark_safe"
    /\ marks[Len(marks)].hit
    /\ Len(knowledge) >= 2

\* Steps 4 and 5 run once more on what add_knowledge left.
OnceMore(ai) ==
    LET a4 == Propagate(ai, 1)
    IN  [a4 EXCEPT !.knowledge = Reduce(RemoveEmpty(@), 1)]

\* C17 (termination at a fixed point): add_knowledge ends, and when it has
\* returned no further mark and no further reduction applies: steps 4 and 5
\* run once more would change nothing.
C17_StopsAtFixedPoint ==
    op = "add_knowledge" => (~raised /\ OnceMore(AI) = AI)

\* C18 (undetermined cells only): when add_knowledge has returned, no
\* sentence holds a cell of self.safes or of self.mines.
C18_OnlyUndetermined ==
    \A i \in DOMAIN knowledge : knowledge[i].cells \cap (mines \cup safes) = {}

\* C18 witness: add_knowledge returned with a sentence built for a cell some
\* of whose neighbours were already known safe and, after marks made in the
\* same call, with known mines.
C18_Witness ==
    /\ op = "add_knowledge" /\ ~raised
    /\ knowledge # << >>
    /\ mines # {}
    /\ CreateNeighbours(last_cell) \cap safes # {}
    /\ Cardinality(moves_made) >= 2

\* C19 (monotone sets): self.moves_made is within self.safes, none of
\* self.moves_made, self.safes and self.mines ever loses a cell, and
\* add_knowledge(cell, count) puts cell in self.moves_made and self.safes.
C19_MonotoneSets ==
    /\ [](moves_made \subseteq safes)
    /\ [][/\ moves_made \subseteq moves_made'
          /\ safes \subseteq safes'
          /\ mines \subseteq mines'
          /\ op' = "add_knowledge" =>
                (last_cell' \in moves_made' /\ last_cell' \in safes')]_vars

\* C19 witness: two cells have been revealed and cells have been marked as
\* mines and as safe beyond the revealed ones.
C19_Witness ==
    /\ Cardinality(moves_made) >= 2
    /\ mines # {}
    /\ safes # moves_made

====
